---- MODULE Spec2Model ----
(***************************************************************************)
(* Loss scaling for mixed precision training:                              *)
(*   orttraining/python/training/amp/loss_scaler.py                        *)
(*     LossScaler         the abstract strategy (reset, update raise)      *)
(*     DynamicLossScaler  doubles the scale after up_scale_window stable   *)
(*                        steps, halves it on a step that overflowed       *)
(*   TrainStepInfo        the per-step record update() reads; its class is *)
(*                        not part of the sources at hand, only its tests  *)
(*                        are (orttraining_test_orttrainer_frontend.py)    *)
(*                                                                         *)
(* Floats.  A loss scale is a Python float.  The model keeps the float     *)
(* n / Unit as its numerator n, in a binary format whose exponent range is *)
(* narrowed so that the values can be enumerated: the least positive value *)
(* is 1 / Unit, the largest finite one MaxFinite / Unit, and beyond it lie *)
(* +inf and -inf.  x * 2 and x / 2 round as IEEE 754 does: exactly inside  *)
(* the range, to an infinity above it, to the nearest even numerator below *)
(* it.  No operation of the scaler yields a NaN from these values.         *)
(***************************************************************************)
EXTENDS Integers, FiniteSets, Sequences, TLC

\* ------------------------------------------------------------------ bounds
\* Explicit constructor arguments: loss_scale from 0..MaxScale (from
\* -1..MaxScale under SpecAnySign), min_loss_scale and max_loss_scale from
\* -1..MaxScale, up_scale_window from 0..MaxWindow.
MaxScale == 3
MaxWindow == 3
\* The float format: FracBits binary places below 1, MaxExponent binary
\* places above it.
FracBits == 2
MaxExponent == 24

RECURSIVE Pow2(_)
Pow2(n) == IF n = 0 THEN 1 ELSE 2 * Pow2(n - 1)

Unit == Pow2(FracBits)
Float(x) == x * Unit
MaxFinite == Float(Pow2(MaxExponent))
Inf == MaxFinite + 1

\* ------------------------------------------------- constructor defaults
\* (a fault: the default the docstring gives for automatic_update)
DefaultAutomaticUpdate_Docstring == FALSE
DefaultAutomaticUpdate == TRUE
DefaultLossScale == 65536
DefaultUpScaleWindow == 2000
DefaultMinLossScale == 1
DefaultMaxLossScale == 16777216

\* ------------------------------------------------------- Python values
\* The values a caller may hand to TrainStepInfo: None, a bool, an int, a str.
PyNone == [kind |-> "NoneType", val |-> 0]
PyBool(b) == [kind |-> "bool", val |-> IF b THEN 1 ELSE 0]
PyInt(i) == [kind |-> "int", val |-> i]
PyStr == [kind |-> "str", val |-> 5]

\* `if x:` of Python.  The str of the model is 'Hello', of length 5.
Truthy(x) ==
    CASE x.kind = "NoneType" -> FALSE
      [] x.kind = "bool" -> x.val = 1
      [] x.kind = "int" -> x.val # 0
      [] x.kind = "str" -> x.val # 0

\* min(a, b) and max(a, b) of Python: the first argument wins a tie.
PyMin(a, b) == IF b < a THEN b ELSE a
PyMax(a, b) == IF b > a THEN b ELSE a

\* x * 2: exact, or an infinity once the result leaves the range.
Double(x) ==
    IF x > MaxFinite \div 2 THEN Inf
    ELSE IF x < -(MaxFinite \div 2) THEN -Inf
    ELSE x * 2

\* x / 2: exact, or rounded half to even where the result has no numerator.
Half(x) ==
    IF x = Inf \/ x = -Inf THEN x
    ELSE LET q == x \div 2
         IN  IF x % 2 = 0 \/ q % 2 = 0 THEN q ELSE q + 1

VARIABLES
    automatic_update,     \* DynamicLossScaler.automatic_update
    loss_scale,           \* DynamicLossScaler.loss_scale
    up_scale_window,      \* DynamicLossScaler.up_scale_window
    min_loss_scale,       \* DynamicLossScaler.min_loss_scale
    max_loss_scale,       \* DynamicLossScaler.max_loss_scale
    initial_loss_scale,   \* DynamicLossScaler._initial_loss_scale
    stable_steps_count,   \* DynamicLossScaler._stable_steps_count
    step_info,            \* what the latest TrainStepInfo(...) call produced
    op,                   \* the latest call
    raised,               \* the exception the latest call ended in, or "none"
    args,                 \* history: the arguments DynamicLossScaler was built with
    arg,                  \* history: what the latest call was given (see Next)
    before,               \* history: (loss_scale, counter) before the latest call
    run_len,              \* history: finite updates in the current run
    run_start,            \* history: (loss_scale, counter) the current run started from
    fell_from             \* history: <<s>> if an overflow met at loss_scale s began
                          \*          the current run, <<>> if something else did

scaler == <<automatic_update, loss_scale, up_scale_window, min_loss_scale,
            max_loss_scale, initial_loss_scale, stable_steps_count>>
history == <<args, arg, before, run_len, run_start, fell_from>>
state == <<loss_scale, stable_steps_count>>
vars == <<scaler, step_info, op, raised, history>>

\* --------------------------------------------------------- TrainStepInfo
\* TrainStepInfo(all_finite=None, epoch=None, step=None): the arguments are
\* checked, then stored as given.
IsBool(x) == x.kind = "bool"
IsNonNegativeInt(x) == x.kind = "int" /\ x.val >= 0

ValidAllFinite(x) == x = PyNone \/ IsBool(x)
\* (a fault: any int passes for epoch and step)
ValidIndex_AnyInt(x) == x = PyNone \/ x.kind = "int"
ValidIndex(x) == x = PyNone \/ IsNonNegativeInt(x)

TrainStepInfoAccepts(all_finite, epoch, step) ==
    /\ ValidAllFinite(all_finite)
    /\ ValidIndex(epoch)
    /\ ValidIndex(step)

AllFiniteInputs == {PyNone, PyBool(TRUE), PyBool(FALSE), PyInt(-1), PyStr}
IndexInputs == {PyNone, PyStr, PyInt(-1), PyInt(0)}

\* step_info is <<>> while the caller holds no record, <<record>> while it does.
TrainStepInfo(all_finite, epoch, step) ==
    /\ IF TrainStepInfoAccepts(all_finite, epoch, step)
       THEN /\ step_info' = <<[all_finite |-> all_finite, epoch |-> epoch, step |-> step]>>
            /\ raised' = "none"
       ELSE /\ step_info' = <<>>
            /\ raised' = "AssertionError"
    /\ op' = "TrainStepInfo"
    /\ before' = state
    /\ UNCHANGED <<scaler, args, run_len, run_start, fell_from>>

\* ------------------------------------------------------------ LossScaler
\* The abstract strategy: both methods raise, and __init__ sets nothing.
LossScalerReset ==
    /\ raised' = "NotImplementedError"
    /\ op' = "LossScaler.reset"
    /\ arg' = <<>>
    /\ before' = state
    /\ UNCHANGED <<scaler, step_info, args, run_len, run_start, fell_from>>

\* (a fault: update passes instead of raising)
LossScalerUpdate_Passes(train_step_info) ==
    /\ raised' = "none"
    /\ op' = "LossScaler.update"
    /\ arg' = <<train_step_info.all_finite>>
    /\ before' = state
    /\ UNCHANGED <<scaler, args, run_len, run_start, fell_from>>

LossScalerUpdate(train_step_info) ==
    /\ raised' = "NotImplementedError"
    /\ op' = "LossScaler.update"
    /\ arg' = <<train_step_info.all_finite>>
    /\ before' = state
    /\ UNCHANGED <<scaler, args, run_len, run_start, fell_from>>

\* ----------------------------------------------------- DynamicLossScaler
\* __init__: the five arguments are stored as given; nothing is checked.
\* (a fault: __init__ clamps loss_scale into [min_loss_scale, max_loss_scale])
DynamicLossScalerInit_Clamps(au, ls, w, mn, mx) ==
    /\ automatic_update = au
    /\ loss_scale = PyMax(mn, PyMin(mx, ls))
    /\ up_scale_window = w
    /\ min_loss_scale = mn
    /\ max_loss_scale = mx
    /\ initial_loss_scale = loss_scale
    /\ stable_steps_count = 0
    /\ args = [automatic_update |-> au, loss_scale |-> ls, up_scale_window |-> w,
               min_loss_scale |-> mn, max_loss_scale |-> mx]
    /\ arg = <<>>
    /\ before = <<loss_scale, 0>>
    /\ run_len = 0
    /\ run_start = <<loss_scale, 0>>
    /\ fell_from = <<>>
    /\ step_info = <<>>
    /\ op = "__init__"
    /\ raised = "none"

DynamicLossScalerInit(au, ls, w, mn, mx) ==
    /\ automatic_update = au
    /\ loss_scale = ls
    /\ up_scale_window = w
    /\ min_loss_scale = mn
    /\ max_loss_scale = mx
    /\ initial_loss_scale = ls
    /\ stable_steps_count = 0
    /\ args = [automatic_update |-> au, loss_scale |-> ls, up_scale_window |-> w,
               min_loss_scale |-> mn, max_loss_scale |-> mx]
    /\ arg = <<>>
    /\ before = <<ls, 0>>
    /\ run_len = 0
    /\ run_start = <<ls, 0>>
    /\ fell_from = <<>>
    /\ step_info = <<>>
    /\ op = "__init__"
    /\ raised = "none"

\* reset()
ResetScale == initial_loss_scale
\* (a fault: reset leaves the counter as it is)
ResetCount_Kept == stable_steps_count
ResetCount == 0

\* (a fault: reset takes the scale it finds as the one to restore next time)
Reset_Recaptures ==
    /\ loss_scale' = ResetScale
    /\ stable_steps_count' = ResetCount
    /\ initial_loss_scale' = loss_scale
    /\ run_len' = 0
    /\ run_start' = <<loss_scale', stable_steps_count'>>
    /\ fell_from' = <<>>
    /\ op' = "reset"
    /\ raised' = "none"
    /\ arg' = <<>>
    /\ before' = state
    /\ UNCHANGED <<automatic_update, up_scale_window, min_loss_scale, max_loss_scale,
                   step_info, args>>

Reset ==
    /\ loss_scale' = ResetScale
    /\ stable_steps_count' = ResetCount
    /\ run_len' = 0
    /\ run_start' = <<loss_scale', stable_steps_count'>>
    /\ fell_from' = <<>>
    /\ op' = "reset"
    /\ raised' = "none"
    /\ arg' = <<>>
    /\ before' = state
    /\ UNCHANGED <<automatic_update, up_scale_window, min_loss_scale, max_loss_scale,
                   initial_loss_scale, step_info, args>>

\* update(train_step_info).  The record is the caller's: update reads its
\* all_finite and assigns to none of its fields.
\* (a fault: only all_finite=False counts as an overflow)
IsStable_UnlessFalse(info) == info.all_finite # PyBool(FALSE)
\* (a fault: the steps of epoch 0 never count as stable)
IsStable_AfterFirstEpoch(info) == Truthy(info.all_finite) /\ info.epoch # PyInt(0)
\* (a fault: the two branches are exchanged)
IsStable_Exchanged(info) == ~Truthy(info.all_finite)
IsStable(info) == Truthy(info.all_finite)
\* (two faults: the window is one step too long, one step too short)
WindowReached_Late(count, window) == count > window
WindowReached_Early(count, window) == count >= window - 1
WindowReached(count, window) == count >= window
\* (a fault: the doubled scale is not clamped)
ScaleUp_Unclamped(scale, max_scale) == Double(scale)
ScaleUp(scale, max_scale) == PyMin(max_scale, Double(scale))
\* (a fault: the halved scale is not clamped)
ScaleDown_Unclamped(scale, min_scale) == Half(scale)
ScaleDown(scale, min_scale) == PyMax(min_scale, Half(scale))
\* (a fault: an overflow leaves the counter as it is)
OverflowCount_Kept(count) == count
OverflowCount(count) == 0

Update(train_step_info) ==
    /\ LET info == train_step_info
           count == stable_steps_count + 1
       IN  IF IsStable(info)
           THEN /\ IF WindowReached(count, up_scale_window)
                   THEN /\ loss_scale' = ScaleUp(loss_scale, max_loss_scale)
                        /\ stable_steps_count' = 0
                   ELSE /\ loss_scale' = loss_scale
                        /\ stable_steps_count' = count
                \* history: a run ends with the up_scale_window-th finite update
                /\ IF run_len >= up_scale_window
                   THEN /\ run_len' = 1
                        /\ run_start' = <<loss_scale, stable_steps_count>>
                        /\ fell_from' = <<>>
                   ELSE /\ run_len' = run_len + 1
                        /\ run_start' = run_start
                        /\ fell_from' = fell_from
           ELSE /\ loss_scale' = ScaleDown(loss_scale, min_loss_scale)
                /\ stable_steps_count' = OverflowCount(stable_steps_count)
                /\ run_len' = 0
                /\ run_start' = <<loss_scale', stable_steps_count'>>
                /\ fell_from' = <<loss_scale>>
    /\ op' = "update"
    /\ raised' = "none"
    /\ arg' = <<train_step_info.all_finite>>
    /\ before' = state
    /\ UNCHANGED <<automatic_update, up_scale_window, min_loss_scale, max_loss_scale,
                   initial_loss_scale, args>>

\* -------------------------------------------------------- specifications
LossScaleInputs == {Float(x) : x \in 0..MaxScale}
BoundInputs == {Float(x) : x \in -1..MaxScale}
WindowInputs == 0..MaxWindow

\* DynamicLossScaler(automatic_update, loss_scale, up_scale_window,
\*                   min_loss_scale, max_loss_scale), every argument given, the
\* two bounds in order.
Init ==
    \E au \in BOOLEAN, ls \in LossScaleInputs, w \in WindowInputs,
       mn \in BoundInputs, mx \in BoundInputs :
        /\ mn <= mx
        /\ DynamicLossScalerInit(au, ls, w, mn, mx)

\* DynamicLossScaler(loss_scale=..., up_scale_window=..., min_loss_scale=...,
\*                   max_loss_scale=...), automatic_update left to its default
\* and loss_scale of either sign: __init__ checks none of them.
InitAnySign ==
    \E ls \in BoundInputs, w \in WindowInputs, mn \in BoundInputs, mx \in BoundInputs :
        /\ mn <= mx
        /\ DynamicLossScalerInit(DefaultAutomaticUpdate, ls, w, mn, mx)

\* DynamicLossScaler(), every argument left to its default.
InitDefault ==
    DynamicLossScalerInit(DefaultAutomaticUpdate, Float(DefaultLossScale), DefaultUpScaleWindow,
                          Float(DefaultMinLossScale), Float(DefaultMaxLossScale))

\* One record is built per training step, for one update call: the caller
\* lets go of it when the call returns, and builds the next.  arg is the
\* all_finite a scaler was given.
Next ==
    \/ \E all_finite \in AllFiniteInputs, epoch \in IndexInputs, step \in IndexInputs :
          /\ step_info = <<>>
          /\ TrainStepInfo(all_finite, epoch, step)
          /\ arg' = <<>>
    \/ step_info # <<>> /\ Update(step_info[1]) /\ step_info' = <<>>
    \/ Reset
    \/ LossScalerReset
    \/ step_info # <<>> /\ LossScalerUpdate(step_info[1]) /\ step_info' = <<>>

\* A scaler driven by records that carry all_finite alone.
NextDefault ==
    \/ \E all_finite \in AllFiniteInputs :
          /\ step_info = <<>>
          /\ TrainStepInfo(all_finite, PyNone, PyNone)
          /\ arg' = <<>>
    \/ step_info # <<>> /\ Update(step_info[1]) /\ step_info' = <<>>
    \/ Reset
    \/ LossScalerReset
    \/ step_info # <<>> /\ LossScalerUpdate(step_info[1]) /\ step_info' = <<>>

\* The calls that leave every scaler as it is: TrainStepInfo with any
\* arguments, which arg records, and the abstract strategy's methods.
NextTrainStepInfo ==
    \/ \E all_finite \in AllFiniteInputs, epoch \in IndexInputs, step \in IndexInputs :
          /\ TrainStepInfo(all_finite, epoch, step)
          /\ arg' = <<all_finite, epoch, step>>
    \/ LossScalerReset
    \/ step_info # <<>> /\ LossScalerUpdate(step_info[1]) /\ step_info' = <<>>

\* A caller that keeps the record it built and passes it to update as often
\* as it likes; it builds the next once the one it holds was passed.  The
\* epoch and the step it gives are None or an index.
NextRecord ==
    \/ \E all_finite \in AllFiniteInputs, epoch \in {PyNone, PyInt(0)}, step \in {PyNone, PyInt(0)} :
          /\ step_info = <<>> \/ op = "update"
          /\ TrainStepInfo(all_finite, epoch, step)
          /\ arg' = <<>>
    \/ step_info # <<>> /\ Update(step_info[1]) /\ UNCHANGED step_info
    \/ Reset

\* A training loop: each step builds a record with its all_finite and passes
\* it to update; reset may be called at any time.  A call of TrainStepInfo
\* that is refused builds nothing.
BuildRecord(all_finite) ==
    /\ step_info = <<>>
    /\ TrainStepInfo(all_finite, PyNone, PyNone)
    /\ arg' = <<>>

TrainStep == \E all_finite \in {PyNone, PyBool(TRUE), PyBool(FALSE)} : BuildRecord(all_finite)
CallUpdate == step_info # <<>> /\ Update(step_info[1]) /\ step_info' = <<>>

NextLoop ==
    \/ TrainStep
    \/ \E all_finite \in {PyInt(-1), PyStr} : BuildRecord(all_finite)
    \/ CallUpdate
    \/ Reset

Spec == Init /\ [][Next]_vars
\* The loop goes on: a record is built and update is called, again and again.
SpecLoop == Init /\ [][NextLoop]_vars /\ WF_vars(TrainStep) /\ WF_vars(CallUpdate)
SpecRecord == Init /\ [][NextRecord]_vars
SpecTrainStepInfo == Init /\ [][NextTrainStepInfo]_vars
SpecDefault == InitDefault /\ [][NextDefault]_vars
SpecAnySign == InitAnySign /\ [][NextDefault]_vars

TypeOK ==
    /\ automatic_update \in BOOLEAN
    /\ loss_scale \in -Inf..Inf
    /\ stable_steps_count \in 0..PyMax(up_scale_window, 1)
    /\ Len(step_info) \in {0, 1}
    /\ Len(arg) \in {0, 1, 3}
    /\ Len(fell_from) \in {0, 1}

\* ================================================================ claims
\* What the claims call a valid construction, and the state right after it.
ValidConstruction ==
    /\ args.loss_scale > 0
    /\ args.up_scale_window > 0
    /\ args.min_loss_scale <= args.max_loss_scale

ConstructedInRange ==
    /\ args.min_loss_scale <= args.loss_scale
    /\ args.loss_scale <= args.max_loss_scale

InRange == min_loss_scale <= loss_scale /\ loss_scale <= max_loss_scale

\* C1 (as stated): for every valid construction, min_loss_scale <= loss_scale
\* <= max_loss_scale after every update and every reset.
C1_InRangeAfterEveryCall ==
    (ValidConstruction /\ op \in {"update", "reset"}) => InRange

\* C1 (amended): for every valid construction whose loss_scale lies within
\* [min_loss_scale, max_loss_scale], min_loss_scale <= loss_scale <=
\* max_loss_scale after every update and every reset.
C1_InRangeWhenConstructedInRange ==
    (ValidConstruction /\ ConstructedInRange /\ op \in {"update", "reset"}) => InRange

\* An update has just clamped the doubled scale at max_loss_scale.
C1_Witness ==
    /\ ValidConstruction /\ ConstructedInRange
    /\ op = "update"
    /\ before[1] < loss_scale
    /\ Double(before[1]) > max_loss_scale
    /\ loss_scale = max_loss_scale

\* The state right after construction, from the arguments alone.
AfterConstruction ==
    <<args.automatic_update, args.loss_scale, args.up_scale_window,
      args.min_loss_scale, args.max_loss_scale, args.loss_scale, 0>>

\* min and max as the claims use them.
MinOf(a, b) == IF a <= b THEN a ELSE b
MaxOf(a, b) == IF a >= b THEN a ELSE b

\* The latest call was update, with an all_finite that is / is not True.
FiniteUpdate == op = "update" /\ arg = <<PyBool(TRUE)>>
OverflowUpdate == op = "update" /\ arg = <<PyBool(FALSE)>>

\* C2: reset() after any sequence of update calls restores loss_scale to the
\* value passed at construction and the stable-step counter to 0: the scaler
\* is back in the state it had right after construction.
C2_ResetRestoresConstruction ==
    op = "reset" =>
        /\ loss_scale = args.loss_scale
        /\ stable_steps_count = 0
        /\ scaler = AfterConstruction

\* reset() was called with another loss scale and a counter above 0 in place.
C2_Witness ==
    /\ op = "reset"
    /\ before[1] # args.loss_scale
    /\ before[2] > 0
    /\ loss_scale = args.loss_scale

C4_HalvingTrigger ==
    OverflowUpdate =>
        /\ loss_scale = MaxOf(min_loss_scale, Half(before[1]))
        /\ stable_steps_count = 0

\* update(all_finite=False) has just halved the scale, above min_loss_scale,
\* with a counter above 0 in place.
C4_Witness ==
    /\ OverflowUpdate
    /\ before[2] > 0
    /\ 2 * loss_scale = before[1]
    /\ loss_scale > min_loss_scale
    /\ stable_steps_count = 0

\* C5: from counter 0, a run of fewer than up_scale_window consecutive
\* update(all_finite=True) calls never changes loss_scale.
C5_NoChangeBelowWindow ==
    (0 < run_len /\ run_len < up_scale_window /\ run_start[2] = 0) =>
        loss_scale = run_start[1]

\* up_scale_window - 1 finite updates in a row, two at least, and the scale
\* could still be doubled.
C5_Witness ==
    /\ FiniteUpdate
    /\ run_len >= 2
    /\ run_len = up_scale_window - 1
    /\ run_start[2] = 0
    /\ loss_scale = run_start[1]
    /\ 0 < loss_scale /\ 2 * loss_scale <= max_loss_scale

\* The latest call was an update that raised loss_scale.
Increased == op = "update" /\ loss_scale > before[1]

\* That update was given all_finite=True and was the up_scale_window-th finite
\* update of its run: up_scale_window - 1 finite updates came right before it,
\* with no overflow, no reset and no doubling trigger among them.
ClosedFullWindow ==
    /\ arg = <<PyBool(TRUE)>>
    /\ run_len = up_scale_window
    /\ before[2] = up_scale_window - 1

\* C6 (as stated): an update raises loss_scale only if it and the
\* up_scale_window - 1 updates right before it were all finite, with no
\* overflow, reset or earlier doubling trigger among them.
C6_IncreaseOnlyAfterFullWindow ==
    (ValidConstruction /\ Increased) => ClosedFullWindow

\* C6 (amended): the same, for a scaler constructed with its loss_scale within
\* [min_loss_scale, max_loss_scale].
C6_IncreaseOnlyAfterFullWindowInRange ==
    (ValidConstruction /\ ConstructedInRange /\ Increased) => ClosedFullWindow

\* A window of at least two finite updates has just raised the scale of a
\* scaler constructed in range.
C6_Witness ==
    /\ ValidConstruction /\ ConstructedInRange
    /\ Increased
    /\ up_scale_window >= 2
    /\ ClosedFullWindow

\* The latest call was an update that took the doubling branch.
DoublingTrigger == op = "update" /\ Truthy(arg[1]) /\ before[2] + 1 >= up_scale_window

\* C7 (as stated): with loss_scale at max_loss_scale a doubling trigger leaves
\* it at max_loss_scale; with loss_scale at min_loss_scale an
\* update(all_finite=False) leaves it at min_loss_scale.
C7_ClampSaturation ==
    ValidConstruction =>
        /\ (DoublingTrigger /\ before[1] = max_loss_scale) => loss_scale = max_loss_scale
        /\ (OverflowUpdate /\ before[1] = min_loss_scale) => loss_scale = min_loss_scale

\* C7 (amended): the same, for a max_loss_scale that is not negative and for a
\* min_loss_scale that is not negative.
C7_ClampSaturationNonNegative ==
    ValidConstruction =>
        /\ (DoublingTrigger /\ before[1] = max_loss_scale /\ max_loss_scale >= 0)
               => loss_scale = max_loss_scale
        /\ (OverflowUpdate /\ before[1] = min_loss_scale /\ min_loss_scale >= 0)
               => loss_scale = min_loss_scale

\* update(all_finite=False) has just met a loss_scale at a positive
\* min_loss_scale, below max_loss_scale.
C7_Witness ==
    /\ ValidConstruction
    /\ OverflowUpdate
    /\ before[1] = min_loss_scale
    /\ 0 < min_loss_scale /\ min_loss_scale < max_loss_scale
    /\ loss_scale = min_loss_scale

\* C8: reset() and update(step_info) of the abstract LossScaler always end in
\* NotImplementedError and change no state; the two methods of
\* DynamicLossScaler are the ones that run to their end.
C8_AbstractMethodsRaise ==
    /\ op \in {"LossScaler.reset", "LossScaler.update"} =>
          /\ raised = "NotImplementedError"
          /\ state = before
          /\ <<automatic_update, up_scale_window, min_loss_scale, max_loss_scale,
               initial_loss_scale>>
             = <<args.automatic_update, args.up_scale_window, args.min_loss_scale,
                 args.max_loss_scale, args.loss_scale>>
    /\ op \in {"reset", "update"} => raised = "none"

\* LossScaler.update was called with a record, beside a scaler that updates
\* have moved away from its construction state.
C8_Witness ==
    /\ op = "LossScaler.update"
    /\ arg # <<>>
    /\ raised = "NotImplementedError"
    /\ loss_scale # args.loss_scale
    /\ stable_steps_count > 0

Given(x) == x.kind # "NoneType"
FieldTypesOK(all_finite, epoch, step) ==
    /\ Given(all_finite) => all_finite.kind = "bool"
    /\ Given(epoch) => (epoch.kind = "int" /\ epoch.val >= 0)
    /\ Given(step) => (step.kind = "int" /\ step.val >= 0)

\* C10: TrainStepInfo(...) fails with a validation error whenever all_finite is
\* given and is no bool, or epoch or step is given and is no non-negative
\* int; a failed call produces no record, and every record there is satisfies
\* the field-type invariant.
C10_InvalidArgumentsRejected ==
    /\ op = "TrainStepInfo" =>
          IF FieldTypesOK(arg[1], arg[2], arg[3])
          THEN raised = "none"
          ELSE raised = "AssertionError" /\ step_info = <<>>
    /\ raised = "AssertionError" => step_info = <<>>
    /\ step_info # <<>> =>
          FieldTypesOK(step_info[1].all_finite, step_info[1].epoch, step_info[1].step)

\* TrainStepInfo(all_finite=True, epoch=-1) was refused.
C10_Witness ==
    /\ op = "TrainStepInfo"
    /\ arg = <<PyBool(TRUE), PyInt(-1), PyNone>>
    /\ raised = "AssertionError"
    /\ step_info = <<>>

\* The latest call was update, with a record whose all_finite is None.
UnknownUpdate == op = "update" /\ arg = <<PyNone>>

\* C11: update with step_info.all_finite = None takes the overflow branch:
\* from any state (s, c) it yields loss_scale = max(min_loss_scale, s / 2) and
\* counter 0, as update(all_finite=False) does from that state.
C11_NoneTakesOverflowBranch ==
    UnknownUpdate =>
        /\ loss_scale = MaxOf(min_loss_scale, Half(before[1]))
        /\ loss_scale = ScaleDown(before[1], min_loss_scale)
        /\ stable_steps_count = 0

\* update(all_finite=None) has just halved the scale, above min_loss_scale,
\* with a counter above 0 in place.
C11_Witness ==
    /\ UnknownUpdate
    /\ before[2] > 0
    /\ 2 * loss_scale = before[1]
    /\ loss_scale > min_loss_scale
    /\ stable_steps_count = 0

\* What update and reset are to leave alone.
configuration == <<automatic_update, up_scale_window, min_loss_scale, max_loss_scale,
                   initial_loss_scale>>

\* C12: update and reset change nothing except loss_scale and the stable-step
\* counter: automatic_update, up_scale_window, min_loss_scale, max_loss_scale
\* and the captured initial loss scale are as they were after every update
\* and every reset, and the record passed to update is as the caller built it.
C12_FrameOfUpdateAndReset ==
    [][/\ op' \in {"update", "reset"} => UNCHANGED configuration
       /\ op' = "update" => /\ step_info # <<>>
                             /\ step_info' = step_info]_vars

\* An update has moved loss_scale and reset the counter, and the caller still
\* holds the record it passed, epoch and step given.
C12_Witness ==
    /\ op = "update"
    /\ loss_scale # before[1]
    /\ stable_steps_count # before[2]
    /\ step_info = <<[all_finite |-> arg[1], epoch |-> PyInt(0), step |-> PyInt(0)]>>
    /\ configuration = <<args.automatic_update, args.up_scale_window, args.min_loss_scale,
                         args.max_loss_scale, args.loss_scale>>

\* The latest call was an update or a reset that changed loss_scale.
ScaleChanged == op \in {"update", "reset"} /\ loss_scale # before[1]

\* C13: whenever an update or a reset changes loss_scale, in either
\* direction, the stable-step counter is 0 in the resulting state.
C13_CounterZeroWhenScaleChanges ==
    ScaleChanged => stable_steps_count = 0

\* A reset has changed loss_scale with a counter above 0 in place.
C13_Witness ==
    /\ op = "reset"
    /\ ScaleChanged
    /\ before[2] > 0
    /\ stable_steps_count = 0

\* C14: for up_scale_window >= 1 the stable-step counter c satisfies
\* 0 <= c <= up_scale_window - 1 in every state update and reset reach, so
\* the test counter >= up_scale_window fires exactly when the incremented
\* counter equals up_scale_window, and a finite update takes (s, c) to
\* (s, c + 1) if c + 1 < up_scale_window and to (min(max_loss_scale, 2s), 0)
\* if c + 1 = up_scale_window.
C14_CounterBelowWindow ==
    up_scale_window >= 1 =>
        /\ 0 <= stable_steps_count
        /\ stable_steps_count <= up_scale_window - 1
        /\ FiniteUpdate =>
              /\ before[2] + 1 <= up_scale_window
              /\ WindowReached(before[2] + 1, up_scale_window)
                     <=> before[2] + 1 = up_scale_window
              /\ before[2] + 1 < up_scale_window =>
                     state = <<before[1], before[2] + 1>>
              /\ before[2] + 1 = up_scale_window =>
                     state = <<MinOf(max_loss_scale, Double(before[1])), 0>>

\* A finite update has taken the counter to up_scale_window - 1, the most it
\* can be, from a counter above 0.
C14_Witness ==
    /\ FiniteUpdate
    /\ before[2] > 0
    /\ stable_steps_count = before[2] + 1
    /\ stable_steps_count = up_scale_window - 1
    /\ loss_scale = before[1]

\* The state an update leaves, from the state (s, c) it met, the
\* configuration and the all_finite flag alone.
UpdateResult(s, c, window, min_scale, max_scale, all_finite) ==
    IF all_finite = PyBool(TRUE)
    THEN IF c + 1 >= window
         THEN <<MinOf(max_scale, Double(s)), 0>>
         ELSE <<s, c + 1>>
    ELSE <<MaxOf(min_scale, Half(s)), 0>>

\* C15: update and reset are deterministic state transitions.  The state
\* after construction and after reset is given by the constructor arguments,
\* and the state after update by the state it met, the configuration and the
\* all_finite flag: two scalers built alike and driven alike agree after
\* every step, whatever step_info.epoch, step_info.step and automatic_update.
C15_DeterministicTransitions ==
    /\ op \in {"__init__", "reset"} => state = <<args.loss_scale, 0>>
    /\ op = "update" =>
          state = UpdateResult(before[1], before[2], args.up_scale_window,
                               args.min_loss_scale, args.max_loss_scale, arg[1])

\* With automatic_update off, a record with its epoch given and its step not
\* has just closed a window and raised the scale.
C15_Witness ==
    /\ op = "update"
    /\ automatic_update = FALSE
    /\ step_info = <<[all_finite |-> PyBool(TRUE), epoch |-> PyInt(0), step |-> PyNone]>>
    /\ loss_scale > before[1]
    /\ stable_steps_count = 0

\* C16 (as stated): if the scaler is constructed with min_loss_scale <=
\* loss_scale <= max_loss_scale, then min_loss_scale <= loss_scale <=
\* max_loss_scale in every reachable state, the initial one and those after
\* reset included; the constructor neither checks nor clamps loss_scale.
C16_InRangeEverywhere ==
    /\ ConstructedInRange => InRange
    /\ op = "__init__" => raised = "none" /\ loss_scale = args.loss_scale

\* C16 (amended): the same, for a loss_scale argument that is not negative.
C16_InRangeEverywhereNonNegative ==
    /\ (ConstructedInRange /\ args.loss_scale >= 0) => InRange
    /\ op = "__init__" => raised = "none" /\ loss_scale = args.loss_scale

\* A scaler constructed in range has had its scale halved down to
\* min_loss_scale and was then reset, to a loss_scale between the bounds.
C16_Witness ==
    /\ ConstructedInRange /\ args.loss_scale >= 0
    /\ op = "reset"
    /\ before[1] = min_loss_scale
    /\ min_loss_scale < loss_scale /\ loss_scale < max_loss_scale

\* An update(all_finite=False) met at loss_scale s, then exactly
\* up_scale_window update(all_finite=True) calls, and nothing in between.
RoundTrip(s) == fell_from = <<s>> /\ run_len = up_scale_window

\* C17 (as stated): from any state with loss_scale = s where min_loss_scale
\* <= s / 2 and s <= max_loss_scale, one update(all_finite=False) followed by
\* exactly up_scale_window consecutive update(all_finite=True) calls returns
\* loss_scale to s with counter 0.
C17_RecoveryRoundTrip ==
    fell_from # <<>> =>
        LET s == fell_from[1]
        IN  (RoundTrip(s) /\ min_loss_scale <= Half(s) /\ s <= max_loss_scale) =>
                (loss_scale = s /\ stable_steps_count = 0)

\* C17 (amended): the same for up_scale_window >= 1 and an s whose half is
\* exact, (s / 2) * 2 = s; and after a halving that was clamped at
\* min_loss_scale, min_loss_scale > s / 2, loss_scale returns to s only if s
\* is max_loss_scale.
C17_RecoveryRoundTripExact ==
    (fell_from # <<>> /\ up_scale_window >= 1) =>
        LET s == fell_from[1]
        IN  /\ (RoundTrip(s) /\ min_loss_scale <= Half(s) /\ s <= max_loss_scale
                    /\ Double(Half(s)) = s) =>
                   (loss_scale = s /\ stable_steps_count = 0)
            /\ (RoundTrip(s) /\ min_loss_scale > Half(s) /\ s <= max_loss_scale) =>
                   (loss_scale = s => s = max_loss_scale)

\* An overflow has halved a positive scale, above min_loss_scale, and a window
\* of at least two finite updates has just brought it back.
C17_Witness ==
    /\ FiniteUpdate
    /\ up_scale_window >= 2
    /\ fell_from # <<>>
    /\ RoundTrip(loss_scale)
    /\ before = <<Half(loss_scale), up_scale_window - 1>>
    /\ min_loss_scale < before[1] /\ before[1] < loss_scale
    /\ stable_steps_count = 0

\* The latest call was an update that met a positive loss_scale within
\* [min_loss_scale, max_loss_scale].
MetPositiveInRange ==
    /\ op = "update"
    /\ before[1] > 0
    /\ min_loss_scale <= before[1] /\ before[1] <= max_loss_scale

\* C19: in any reachable state with a positive loss_scale within
\* [min_loss_scale, max_loss_scale], update(all_finite=True) never decreases
\* loss_scale and update(all_finite=False) never increases it.
C19_DirectionOfChange ==
    MetPositiveInRange =>
        /\ arg = <<PyBool(TRUE)>> => loss_scale >= before[1]
        /\ arg = <<PyBool(FALSE)>> => loss_scale <= before[1]

\* update(all_finite=False) has lowered a positive loss_scale that lay
\* strictly between the bounds, by less than half: min_loss_scale held it.
C19_Witness ==
    /\ MetPositiveInRange
    /\ OverflowUpdate
    /\ before[1] < max_loss_scale
    /\ loss_scale < before[1]
    /\ loss_scale = min_loss_scale
    /\ Half(before[1]) < min_loss_scale

\* The latest call was neither a reset nor an update that was given anything
\* but all_finite=True.
OnlyFinite == op # "reset" /\ (op = "update" => arg = <<PyBool(TRUE)>>)

====
